---- MODULE Spec2Model ----
(***************************************************************************)
(* Model of src/index.ts (the later of the two versions in the file, lines *)
(* 249-505): the generator that parses the embedded instruction table,     *)
(* drops the rows that are already immediate-mode variants, lower-cases    *)
(* the real opcodes, adds the immediate-mode clones and writes the rule    *)
(* table and the assembly table.                                           *)
(*                                                                         *)
(* A JavaScript string is modelled as a sequence of one-character strings, *)
(* so that split, trim, slice, parseInt, toLowerCase, join and the number  *)
(* formatting are computed character by character as the code does.        *)
(***************************************************************************)
EXTENDS Integers, Sequences, FiniteSets, TLC

VARIABLES
  input,                    \* the table text given to readFileInstructions
  pc,                       \* position in the script
  parsed,                   \* readFileInstructions(instructions)
  kept,                     \* ... .filter(not already expanded)
  lowered,                  \* ... .map(lower-case unless wildcard)
  instr,                    \* ... .flatMap(addImmediateModeClones)
  instructionRulesContent,  \* stringifyFileInstructionsForFile(instr)
  asmContent,               \* the assembly text being built
  fs                        \* the files written so far: name -> content

vars == <<input, pc, parsed, kept, lowered, instr, instructionRulesContent,
          asmContent, fs>>

----------------------------------------------------------------------------
(* Characters and small string helpers *)

NL == "\n"

Whitespace == {" ", "\t", "\r", NL}

DigitChars == <<"0","1","2","3","4","5","6","7","8","9">>

UpperChars == <<"A","B","C","D","E","F","G","H","I","J","K","L","M",
                "N","O","P","Q","R","S","T","U","V","W","X","Y","Z">>

LowerChars == <<"a","b","c","d","e","f","g","h","i","j","k","l","m",
                "n","o","p","q","r","s","t","u","v","w","x","y","z">>

\* Number.NaN, the result of parseInt on a non-number
NaN == 0 - 1

Min(a, b) == IF a <= b THEN a ELSE b

IndexIn(chars, c) == CHOOSE k \in 1..Len(chars) : chars[k] = c

IsIn(chars, c) == \E k \in 1..Len(chars) : chars[k] = c

\* String.prototype.slice(a, b) for 0 <= a <= b
slice(s, a, b) == SubSeq(s, a + 1, Min(b, Len(s)))

\* String.prototype.slice(a)
sliceFrom(s, a) == SubSeq(s, a + 1, Len(s))

\* String.prototype.includes for a one-character needle
includes(s, c) == \E k \in 1..Len(s) : s[k] = c

\* String.prototype.endsWith
endsWith(s, t) ==
  /\ Len(s) >= Len(t)
  /\ SubSeq(s, Len(s) - Len(t) + 1, Len(s)) = t

\* String.prototype.trim
trim(l) ==
  LET solid == {k \in 1..Len(l) : l[k] \notin Whitespace}
  IN  IF solid = {} THEN <<>>
      ELSE SubSeq(l, CHOOSE k \in solid : \A j \in solid : k <= j,
                     CHOOSE k \in solid : \A j \in solid : k >= j)

\* String.prototype.toLowerCase
toLowerCase(s) ==
  [k \in 1..Len(s) |->
     IF IsIn(UpperChars, s[k]) THEN LowerChars[IndexIn(UpperChars, s[k])]
     ELSE s[k]]

\* String.prototype.split("\n")
RECURSIVE splitLines(_)
splitLines(s) ==
  LET seps == {k \in 1..Len(s) : s[k] = NL}
  IN  IF seps = {} THEN <<s>>
      ELSE LET first == CHOOSE k \in seps : \A j \in seps : k <= j
           IN  <<SubSeq(s, 1, first - 1)>>
                 \o splitLines(SubSeq(s, first + 1, Len(s)))

\* Array.prototype.join("\n") on an array of strings
RECURSIVE joinLines(_)
joinLines(ls) ==
  IF ls = <<>> THEN <<>>
  ELSE IF Len(ls) = 1 THEN ls[1]
  ELSE ls[1] \o <<NL>> \o joinLines(Tail(ls))

\* Array.prototype.reverse
reverse(s) == [k \in 1..Len(s) |-> s[Len(s) + 1 - k]]

\* Array.prototype.flatMap over an array of arrays
RECURSIVE flatten(_)
flatten(ss) == IF ss = <<>> THEN <<>> ELSE ss[1] \o flatten(Tail(ss))

\* parseInt(s, 10) of a string of at most one character
parseInt10(s) ==
  IF s # <<>> /\ IsIn(DigitChars, s[1]) THEN IndexIn(DigitChars, s[1]) - 1
  ELSE NaN

\* Number.parseInt(s, 2): the value of the longest prefix of binary digits
RECURSIVE parseBinary(_, _, _)
parseBinary(s, k, acc) ==
  IF k > Len(s) \/ s[k] \notin {"0", "1"} THEN (IF k = 1 THEN NaN ELSE acc)
  ELSE parseBinary(s, k + 1, 2 * acc + (IF s[k] = "1" THEN 1 ELSE 0))

\* parseInt(s, 10) of a longer string: the radix argument forgotten
RECURSIVE parseDecimal(_, _, _)
parseDecimal(s, k, acc) ==
  IF k > Len(s) \/ ~IsIn(DigitChars, s[k]) THEN (IF k = 1 THEN NaN ELSE acc)
  ELSE parseDecimal(s, k + 1, 10 * acc + IndexIn(DigitChars, s[k]) - 1)

parseInt2_radix10(s) == parseDecimal(s, 1, 0)

parseInt2(s) == parseBinary(s, 1, 0)

\* Number.prototype.toString(10) of a non-negative integer or NaN; also the
\* conversion Array.prototype.join applies to a number
RECURSIVE toString10(_)
toString10(n) ==
  IF n = NaN THEN <<"N","a","N">>
  ELSE IF n < 10 THEN <<DigitChars[n + 1]>>
  ELSE toString10(n \div 10) \o <<DigitChars[(n % 10) + 1]>>

----------------------------------------------------------------------------
(* The embedded table and the assembly appendix *)

instructions ==
  <<NL>>
  \o <<"2","2","1","2","2","2","2","2","2","2","C","O","N","D">> \o <<NL>>
  \o <<"2","1","2","2","2","2","2","2","1","1","I","_","A","R","G","2">> \o <<NL>>
  \o <<"2","0","0","1","2","2","2","2","3","3","M","E","M">> \o <<NL>>
  \o <<"1","2","2","2","2","2","2","2","0","0","I","_","A","R","G","1">> \o <<NL>>
  \o <<"1","1","1","0","0","1","0","1","3","7","j","g","t","e","q","i","1","2">> \o <<NL>>
  \o <<"1","1","1","0","0","1","0","0","3","7","j","g","t","i","1","2">> \o <<NL>>
  \o <<"1","1","1","0","0","0","1","1","3","7","j","l","t","e","q","i","1","2">> \o <<NL>>
  \o <<"1","1","1","0","0","0","1","0","3","7","j","l","t","i","1","2">> \o <<NL>>
  \o <<"1","1","1","0","0","0","0","1","3","7","j","n","e","q","i","1","2">> \o <<NL>>
  \o <<"1","1","1","0","0","0","0","0","3","7","j","e","q","i","1","2">> \o <<NL>>
  \o <<"1","1","0","0","0","1","1","1","5","7","s","h","l","i","1","2">> \o <<NL>>
  \o <<"1","1","0","0","0","1","1","0","5","7","s","h","r","i","1","2">> \o <<NL>>
  \o <<"1","1","0","0","0","1","0","1","5","7","x","o","r","i","1","2">> \o <<NL>>
  \o <<"1","1","0","0","0","0","1","1","5","7","o","r","i","1","2">> \o <<NL>>
  \o <<"1","1","0","0","0","0","1","0","5","7","a","n","d","i","1","2">> \o <<NL>>
  \o <<"1","1","0","0","0","0","0","1","5","7","s","u","b","i","1","2">> \o <<NL>>
  \o <<"1","1","0","0","0","0","0","0","5","7","a","d","d","i","1","2">> \o <<NL>>
  \o <<"1","0","1","0","0","1","0","1","3","7","j","g","t","e","q","i","1">> \o <<NL>>
  \o <<"1","0","1","0","0","1","0","0","3","7","j","g","t","i","1">> \o <<NL>>
  \o <<"1","0","1","0","0","0","1","1","3","7","j","l","t","e","q","i","1">> \o <<NL>>
  \o <<"1","0","1","0","0","0","1","0","3","7","j","l","t","i","1">> \o <<NL>>
  \o <<"1","0","1","0","0","0","0","1","3","7","j","n","e","q","i","1">> \o <<NL>>
  \o <<"1","0","1","0","0","0","0","0","3","7","j","e","q","i","1">> \o <<NL>>
  \o <<"1","0","0","1","0","0","0","1","4","7","w","r","i","t","e","i","1">> \o <<NL>>
  \o <<"1","0","0","1","0","0","0","0","4","7","r","e","a","d","i","1">> \o <<NL>>
  \o <<"1","0","0","0","0","1","1","1","5","7","s","h","l","i","1">> \o <<NL>>
  \o <<"1","0","0","0","0","1","1","0","5","7","s","h","r","i","1">> \o <<NL>>
  \o <<"1","0","0","0","0","1","0","1","5","7","x","o","r","i","1">> \o <<NL>>
  \o <<"1","0","0","0","0","1","0","0","5","7","n","o","t","i","1">> \o <<NL>>
  \o <<"1","0","0","0","0","0","1","1","5","7","o","r","i","1">> \o <<NL>>
  \o <<"1","0","0","0","0","0","1","0","5","7","a","n","d","i","1">> \o <<NL>>
  \o <<"1","0","0","0","0","0","0","1","5","7","s","u","b","i","1">> \o <<NL>>
  \o <<"1","0","0","0","0","0","0","0","5","7","a","d","d","i","1">> \o <<NL>>
  \o <<"0","1","1","0","0","1","0","1","3","7","j","g","t","e","q","i","2">> \o <<NL>>
  \o <<"0","1","1","0","0","1","0","0","3","7","j","g","t","i","2">> \o <<NL>>
  \o <<"0","1","1","0","0","0","1","1","3","7","j","l","t","e","q","i","2">> \o <<NL>>
  \o <<"0","1","1","0","0","0","1","0","3","7","j","l","t","i","2">> \o <<NL>>
  \o <<"0","1","1","0","0","0","0","1","3","7","j","n","e","q","i","2">> \o <<NL>>
  \o <<"0","1","1","0","0","0","0","0","3","7","j","e","q","i","2">> \o <<NL>>
  \o <<"0","1","0","0","0","1","1","1","5","7","s","h","l","i","2">> \o <<NL>>
  \o <<"0","1","0","0","0","1","1","0","5","7","s","h","r","i","2">> \o <<NL>>
  \o <<"0","1","0","0","0","1","0","1","5","7","x","o","r","i","2">> \o <<NL>>
  \o <<"0","1","0","0","0","0","1","1","5","7","o","r","i","2">> \o <<NL>>
  \o <<"0","1","0","0","0","0","1","0","5","7","a","n","d","i","2">> \o <<NL>>
  \o <<"0","1","0","0","0","0","0","1","5","7","s","u","b","i","2">> \o <<NL>>
  \o <<"0","1","0","0","0","0","0","0","5","7","a","d","d","i","2">> \o <<NL>>
  \o <<"0","0","1","0","0","1","0","1","3","7","j","g","t","e","q">> \o <<NL>>
  \o <<"0","0","1","0","0","1","0","0","3","7","j","g","t">> \o <<NL>>
  \o <<"0","0","1","0","0","0","1","1","3","7","j","l","t","e","q">> \o <<NL>>
  \o <<"0","0","1","0","0","0","1","0","3","7","j","l","t">> \o <<NL>>
  \o <<"0","0","1","0","0","0","0","1","3","7","j","n","e","q">> \o <<NL>>
  \o <<"0","0","1","0","0","0","0","0","3","7","j","e","q">> \o <<NL>>
  \o <<"0","0","0","1","0","0","1","1","4","7","p","u","s","h">> \o <<NL>>
  \o <<"0","0","0","1","0","0","1","0","4","7","p","o","p">> \o <<NL>>
  \o <<"0","0","0","1","0","0","0","1","4","7","w","r","i","t","e">> \o <<NL>>
  \o <<"0","0","0","1","0","0","0","0","4","7","r","e","a","d">> \o <<NL>>
  \o <<"0","0","0","0","0","1","1","1","5","7","s","h","l">> \o <<NL>>
  \o <<"0","0","0","0","0","1","1","0","5","7","s","h","r">> \o <<NL>>
  \o <<"0","0","0","0","0","1","0","1","5","7","x","o","r">> \o <<NL>>
  \o <<"0","0","0","0","0","1","0","0","5","7","n","o","t">> \o <<NL>>
  \o <<"0","0","0","0","0","0","1","1","5","7","o","r">> \o <<NL>>
  \o <<"0","0","0","0","0","0","1","0","5","7","a","n","d">> \o <<NL>>
  \o <<"0","0","0","0","0","0","0","1","5","7","s","u","b">> \o <<NL>>
  \o <<"0","0","0","0","0","0","0","0","5","7","a","d","d">> \o <<NL>>

asmAppendix ==
  <<NL>>
  \o <<"R","0"," ","0">> \o <<NL>>
  \o <<"R","1"," ","1">> \o <<NL>>
  \o <<"R","2"," ","2">> \o <<NL>>
  \o <<"R","3"," ","3">> \o <<NL>>
  \o <<"R","4"," ","4">> \o <<NL>>
  \o <<"R","5"," ","5">> \o <<NL>>
  \o <<"C","O","U","N","T","E","R"," ","6">> \o <<NL>>
  \o <<"I","N","P","U","T"," ","7">> \o <<NL>>
  \o <<"O","U","T","P","U","T"," ","7">> \o <<NL>>
  \o <<"_"," ","0">> \o <<NL>>

----------------------------------------------------------------------------
(* The functions of the script *)

modes == <<"i1", "i2", "i12">>

\* the suffix a mode appends to the mnemonic
modeTag(mode) ==
  CASE mode = "i1"  -> <<"i","1">>
    [] mode = "i2"  -> <<"i","2">>
    [] mode = "i12" -> <<"i","1","2">>

modeToBits_swapped(mode) ==
  CASE mode = "i1"  -> <<"0","1">>
    [] mode = "i2"  -> <<"1","0">>
    [] mode = "i12" -> <<"1","1">>

modeToBits(mode) ==
  CASE mode = "i1"  -> <<"1","0">>
    [] mode = "i2"  -> <<"0","1">>
    [] mode = "i12" -> <<"1","1">>

\* bits.split(""), bits[0] = ..., bits[1] = ..., bits.join(""): assigning
\* index 0 or 1 of a shorter array extends it
setBit(bits, k, c) ==
  IF k <= Len(bits) THEN [bits EXCEPT ![k] = c] ELSE bits \o <<c>>

immediateModeClone_onlyBit0(i, mode) ==
  [i EXCEPT !.opcodeBits = setBit(i.opcodeBits, 1, modeToBits(mode)[1]),
            !.name = i.name \o modeTag(mode)]

immediateModeClone(i, mode) ==
  [i EXCEPT !.opcodeBits =
              setBit(setBit(i.opcodeBits, 1, modeToBits(mode)[1]),
                     2, modeToBits(mode)[2]),
            !.name = i.name \o modeTag(mode)]

deserializeInstructionFromRules_nameOffByOne(line) ==
  [opcodeBits     |-> slice(line, 0, 8),
   nameStartIndex |-> parseInt10(slice(line, 8, 9)),
   nameEndIndex   |-> parseInt10(slice(line, 9, 10)),
   name           |-> sliceFrom(line, 11)]

deserializeInstructionFromRules(line) ==
  [opcodeBits     |-> slice(line, 0, 8),
   nameStartIndex |-> parseInt10(slice(line, 8, 9)),
   nameEndIndex   |-> parseInt10(slice(line, 9, 10)),
   name           |-> sliceFrom(line, 10)]

serializeInstructionToRules(i) ==
  i.opcodeBits \o toString10(i.nameStartIndex) \o toString10(i.nameEndIndex)
    \o i.name

\* the result is either the thrown Error or the returned line
serializeInstructionToAsm(i) ==
  IF includes(i.opcodeBits, "2")
  THEN [threw |-> TRUE, line |-> <<>>]
  ELSE [threw |-> FALSE,
        line  |-> i.name \o <<" ">> \o toString10(parseInt2(i.opcodeBits))]

readFileInstructions_noReverse(text) ==
  LET lines    == splitLines(text)
      trimmed  == [k \in 1..Len(lines) |-> trim(lines[k])]
      nonBlank == SelectSeq(trimmed, LAMBDA l : l # <<>>)
  IN  [k \in 1..Len(nonBlank) |-> deserializeInstructionFromRules(nonBlank[k])]

readFileInstructions(text) ==
  LET lines    == splitLines(text)
      trimmed  == [k \in 1..Len(lines) |-> trim(lines[k])]
      nonBlank == SelectSeq(trimmed, LAMBDA l : l # <<>>)
  IN  reverse([k \in 1..Len(nonBlank) |->
                 deserializeInstructionFromRules(nonBlank[k])])

stringifyFileInstructionsForFile(is) ==
  joinLines([k \in 1..Len(is) |-> serializeInstructionToRules(is[k])])

getInstructionImmediateModes_notIsDefault(i) ==
  IF i.name \in {<<"r","e","a","d">>, <<"p","o","p">>} THEN <<>>
  ELSE IF i.name \in {<<"w","r","i","t","e">>, <<"p","u","s","h">>}
       THEN <<"i1">>
  ELSE modes

getInstructionImmediateModes(i) ==
  IF i.name \in {<<"r","e","a","d">>, <<"p","o","p">>} THEN <<>>
  ELSE IF i.name \in {<<"n","o","t">>, <<"w","r","i","t","e">>,
                      <<"p","u","s","h">>}
       THEN <<"i1">>
  ELSE modes

addImmediateModeClones(i) ==
  IF includes(i.opcodeBits, "2") THEN <<i>>
  ELSE LET modesToAdd == SelectSeq(getInstructionImmediateModes(i),
                                   LAMBDA a : Len(modeTag(a)) > 0)
       IN  <<i>> \o [k \in 1..Len(modesToAdd) |->
                       immediateModeClone(i, modesToAdd[k])]

\* the regular expression /i[abc]$/ of the earlier version of the filter
alreadyExpanded_abc(name) ==
  \/ endsWith(name, <<"i","a">>)
  \/ endsWith(name, <<"i","b">>)
  \/ endsWith(name, <<"i","c">>)

\* the regular expression /i(12|1|2)$/ tested on the name
alreadyExpanded(name) ==
  \/ endsWith(name, <<"i","1","2">>)
  \/ endsWith(name, <<"i","1">>)
  \/ endsWith(name, <<"i","2">>)

filterExpanded(is) == SelectSeq(is, LAMBDA i : ~alreadyExpanded(i.name))

lowercaseNames(is) ==
  [k \in 1..Len(is) |->
     [is[k] EXCEPT !.name = IF includes(is[k].opcodeBits, "2") THEN is[k].name
                            ELSE toLowerCase(is[k].name)]]

expand(is) == flatten([k \in 1..Len(is) |-> addImmediateModeClones(is[k])])

asmRecords_noFilter(is) == is

\* instr.filter(({ opcodeBits }) => !opcodeBits.includes("2"))
asmRecords(is) == SelectSeq(is, LAMBDA i : ~includes(i.opcodeBits, "2"))

RulesFile == "./instruction_rules.data"

AsmFile == "./assembly.data"

\* fs.writeFileSync(path, content): creates or overwrites the file
writeFileSync(files, path, content) ==
  [p \in DOMAIN files \cup {path} |-> IF p = path THEN content ELSE files[p]]

----------------------------------------------------------------------------
(* Input tables *)

MaxRows == 2

RowSet ==
  {
    <<"0","0","0","0","0","0","0","0","5","7","a","d","d">>,
    <<"0","0","0","0","0","1","0","0","5","7","N","O","T">>,
    <<"0","0","0","1","0","0","0","0","4","7","r","e","a","d">>,
    <<"0","0","0","1","0","0","1","0","4","7","p","o","p">>,
    <<"0","0","0","1","0","0","0","1","4","7","w","r","i","t","e">>,
    <<"0","0","0","1","0","0","1","1","4","7","p","u","s","h">>,
    <<"1","0","0","0","0","0","1","0","5","7","a","n","d">>,
    <<"1","1","0","0","0","1","1","0","5","7","p","o","p">>,
    <<"1","0","0","0","0","0","0","0","5","7","a","d","d","i","1">>,
    <<"1","1","0","0","0","0","0","0","5","7","a","d","d","i","1","2">>,
    <<"0","1","0","0","0","0","1","1","5","7","O","R","I","2">>,
    <<"0","0","0","0","0","0","0","0","5","7","j","e","q">>,
    <<"2","2","1","2","2","2","2","2","2","2","C","O","N","D">>,
    <<"1","2","2","2","2","2","2","2","0","0","I","_","A","R","G","1">>,
    <<"2","0","0","1","2","2","2","2","3","3","M","i","1">>,
    <<"1","0","0","0","0","0","0","2","0","0","m","a","s","k">>,
    <<"0","0","1","0","0","0","0","1","0","9","J","n","e","q">>,
    <<"0","1","0","0","0","0","0","0","5","7","a","d","d","i","2">>
  }

Tables == UNION {[1..n -> RowSet] : n \in 0..MaxRows}

\* the text of a table: as in the template literal (a newline before and
\* after every row), or with padding and blank lines around the rows
Layout(t, padded) ==
  IF padded
  THEN flatten([k \in 1..Len(t) |-> <<" ">> \o t[k] \o <<" ", "\r", NL, NL>>])
  ELSE <<NL>> \o flatten([k \in 1..Len(t) |-> t[k] \o <<NL>>])

Inputs ==
  {instructions} \cup {Layout(t, p) : t \in Tables, p \in BOOLEAN}

----------------------------------------------------------------------------
(* The script, statement by statement *)

Init ==
  /\ input \in Inputs
  /\ pc = "read"
  /\ parsed = <<>>
  /\ kept = <<>>
  /\ lowered = <<>>
  /\ instr = <<>>
  /\ instructionRulesContent = <<>>
  /\ asmContent = <<>>
  /\ fs = <<>>

Read ==
  /\ pc = "read"
  /\ parsed' = readFileInstructions(input)
  /\ pc' = "filter"
  /\ UNCHANGED <<input, kept, lowered, instr, instructionRulesContent,
                 asmContent, fs>>

Filter ==
  /\ pc = "filter"
  /\ kept' = filterExpanded(parsed)
  /\ pc' = "lowercase"
  /\ UNCHANGED <<input, parsed, lowered, instr, instructionRulesContent,
                 asmContent, fs>>

Lowercase ==
  /\ pc = "lowercase"
  /\ lowered' = lowercaseNames(kept)
  /\ pc' = "expand"
  /\ UNCHANGED <<input, parsed, kept, instr, instructionRulesContent,
                 asmContent, fs>>

Expand ==
  /\ pc = "expand"
  /\ instr' = expand(lowered)
  /\ pc' = "stringify"
  /\ UNCHANGED <<input, parsed, kept, lowered, instructionRulesContent,
                 asmContent, fs>>

Stringify ==
  /\ pc = "stringify"
  /\ instructionRulesContent' = stringifyFileInstructionsForFile(instr)
  /\ pc' = "writeRules"
  /\ UNCHANGED <<input, parsed, kept, lowered, instr, asmContent, fs>>

WriteRules ==
  /\ pc = "writeRules"
  /\ fs' = writeFileSync(fs, RulesFile, instructionRulesContent)
  /\ pc' = "asm"
  /\ UNCHANGED <<input, parsed, kept, lowered, instr,
                 instructionRulesContent, asmContent>>

\* let asmContent = instr.filter(...).map(serializeInstructionToAsm)
\*   .join("\n"); asmContent += appendix.  An Error thrown by
\* serializeInstructionToAsm ends the script.
RenderAsm ==
  /\ pc = "asm"
  /\ LET rs  == asmRecords(instr)
         out == [k \in 1..Len(rs) |-> serializeInstructionToAsm(rs[k])]
     IN  IF \E k \in 1..Len(out) : out[k].threw
         THEN /\ pc' = "threw"
              /\ UNCHANGED asmContent
         ELSE /\ asmContent' =
                   joinLines([k \in 1..Len(out) |-> out[k].line])
                     \o asmAppendix
              /\ pc' = "writeAsm"
  /\ UNCHANGED <<input, parsed, kept, lowered, instr,
                 instructionRulesContent, fs>>

WriteAsm ==
  /\ pc = "writeAsm"
  /\ fs' = writeFileSync(fs, AsmFile, asmContent)
  /\ pc' = "done"
  /\ UNCHANGED <<input, parsed, kept, lowered, instr,
                 instructionRulesContent, asmContent>>

Next ==
  \/ Read
  \/ Filter
  \/ Lowercase
  \/ Expand
  \/ Stringify
  \/ WriteRules
  \/ RenderAsm
  \/ WriteAsm

Spec == Init /\ [][Next]_vars

----------------------------------------------------------------------------
(* Vocabulary of the properties, stated independently of the functions     *)
(* above                                                                   *)

Expanded == pc \in {"stringify", "writeRules", "asm", "writeAsm", "done", "threw"}

IsWildcard(bits) == \E k \in 1..Len(bits) : bits[k] = "2"

\* the value of 8 opcode bits, bit 0 most significant
RECURSIVE Pow2(_)
Pow2(n) == IF n = 0 THEN 1 ELSE 2 * Pow2(n - 1)

RECURSIVE WeightedSum(_, _)
WeightedSum(bits, k) ==
  IF k > Len(bits) THEN 0
  ELSE (IF bits[k] = "1" THEN Pow2(Len(bits) - k) ELSE 0)
         + WeightedSum(bits, k + 1)

OpcodeValue(bits) == WeightedSum(bits, 1)

\* the decimal numeral of a value in 0..255
Decimal(v) ==
  IF v < 10 THEN <<DigitChars[v + 1]>>
  ELSE IF v < 100 THEN <<DigitChars[(v \div 10) + 1], DigitChars[(v % 10) + 1]>>
  ELSE <<DigitChars[(v \div 100) + 1], DigitChars[((v \div 10) % 10) + 1],
         DigitChars[(v % 10) + 1]>>

TagI1 == <<"i","1">>

TagI2 == <<"i","2">>

TagI12 == <<"i","1","2">>

\* the mode tags a lower-cased mnemonic is expanded with
TagsOfMnemonic(m) ==
  IF m \in {<<"r","e","a","d">>, <<"p","o","p">>} THEN <<>>
  ELSE IF m \in {<<"n","o","t">>, <<"w","r","i","t","e">>, <<"p","u","s","h">>}
       THEN <<TagI1>>
  ELSE <<TagI1, TagI2, TagI12>>

TagsOfRecord(r) ==
  IF IsWildcard(r.opcodeBits) THEN <<>> ELSE TagsOfMnemonic(r.name)

\* the two leading bits of a mode
PatternOfTag(tag) ==
  IF tag = TagI1 THEN <<"1","0">>
  ELSE IF tag = TagI2 THEN <<"0","1">>
  ELSE <<"1","1">>

\* what a derived record adds to the base's value when the base leads with 00
OffsetOfTag(tag) ==
  IF tag = TagI1 THEN 128 ELSE IF tag = TagI2 THEN 64 ELSE 192

EndsInModeTag(name) ==
  \E tag \in {TagI1, TagI2, TagI12} :
    /\ Len(name) >= Len(tag)
    /\ SubSeq(name, Len(name) - Len(tag) + 1, Len(name)) = tag

\* the position in the expanded sequence of the block of the k-th row given
\* to the expander
RECURSIVE BlockStart(_, _)
BlockStart(rows, k) ==
  IF k = 1 THEN 1
  ELSE BlockStart(rows, k - 1) + 1 + Len(TagsOfRecord(rows[k - 1]))

NoOpcodeCollision(is) ==
  \A a, b \in 1..Len(is) :
    (a # b /\ ~IsWildcard(is[a].opcodeBits) /\ ~IsWildcard(is[b].opcodeBits))
      => is[a].opcodeBits # is[b].opcodeBits

Leading(bits) == SubSeq(bits, 1, 2)

Low6(bits) == SubSeq(bits, 3, Len(bits))

\* the non-blank rows of a table text, as authored
AuthoredRows(text) ==
  LET lines == splitLines(text)
  IN  SelectSeq([k \in 1..Len(lines) |-> trim(lines[k])], LAMBDA l : l # <<>>)

Count(s, x) == Cardinality({k \in 1..Len(s) : s[k] = x})

Range(s) == {s[k] : k \in 1..Len(s)}

----------------------------------------------------------------------------
(* C1: for the embedded table, no two distinct non-wildcard records of the *)
(* expanded sequence have the same opcodeBits.                             *)
C1_NoCollisionInEmbeddedTable ==
  (input = instructions /\ Expanded) => NoOpcodeCollision(instr)

C1_Witness ==
  /\ input = instructions
  /\ pc = "done"
  /\ \E a, b \in 1..Len(instr) :
       /\ instr[a].name = <<"a","d","d">>
       /\ instr[b].name = <<"a","d","d","i","1","2">>
       /\ instr[b].opcodeBits = <<"1","1","0","0","0","0","0","0">>

(* C3: every retained non-wildcard row with lower-cased mnemonic m is      *)
(* emitted as the base record immediately followed by its derived records  *)
(* and nothing else: none for read and pop, only m+i1 for not, write and   *)
(* push, and m+i1, m+i2, m+i12 in this order otherwise; every derived      *)
(* record has the base's nameStartIndex and nameEndIndex.                  *)
C3_BaseThenDerivedPerPolicy ==
  Expanded =>
    /\ Len(instr) = BlockStart(lowered, Len(lowered) + 1) - 1
    /\ \A k \in 1..Len(lowered) :
         LET b    == lowered[k]
             s    == BlockStart(lowered, k)
             tags == TagsOfRecord(b)
         IN  /\ instr[s] = b
             /\ \A j \in 1..Len(tags) :
                  /\ instr[s + j].name = b.name \o tags[j]
                  /\ instr[s + j].nameStartIndex = b.nameStartIndex
                  /\ instr[s + j].nameEndIndex = b.nameEndIndex

C3_Witness ==
  /\ pc = "done"
  /\ Len(lowered) = 2
  /\ lowered[1].name = <<"n","o","t">>
  /\ lowered[2].name = <<"p","o","p">>
  /\ Len(instr) = 3
  /\ instr[2].name = <<"n","o","t","i","1">>

(* C4 as stated: every derived record has bits 2-7 of its base and bits    *)
(* 0-1 of its mode, the base is emitted with its opcodeBits unchanged and  *)
(* with bits 0-1 equal to 00, and every opcodeBits is 8 characters long.   *)
DerivedBitsFollowBase ==
  /\ \A k \in 1..Len(instr) : Len(instr[k].opcodeBits) = 8
  /\ \A k \in 1..Len(lowered) :
       LET b    == lowered[k]
           s    == BlockStart(lowered, k)
           tags == TagsOfRecord(b)
       IN  /\ instr[s].opcodeBits = b.opcodeBits
           /\ \A j \in 1..Len(tags) :
                /\ Low6(instr[s + j].opcodeBits) = Low6(b.opcodeBits)
                /\ Leading(instr[s + j].opcodeBits) = PatternOfTag(tags[j])

BasesLeadWith00 ==
  \A k \in 1..Len(lowered) :
    ~IsWildcard(lowered[k].opcodeBits)
      => Leading(instr[BlockStart(lowered, k)].opcodeBits) = <<"0","0">>

C4_Original ==
  Expanded => (DerivedBitsFollowBase /\ BasesLeadWith00)

(* C4 amended: every derived record has bits 2-7 of its base and bits 0-1  *)
(* of its mode, the base is emitted with its opcodeBits unchanged, and     *)
(* every opcodeBits is 8 characters long; the base's bits 0-1 are those of *)
(* the authored row, which are 00 for every base row of the embedded table *)
(* but are not forced to 00 by the expander.                               *)
C4_DerivedBitsFollowBase ==
  Expanded =>
    /\ DerivedBitsFollowBase
    /\ (input = instructions => BasesLeadWith00)

C4_Witness ==
  /\ pc = "done"
  /\ \E a, b \in 1..Len(instr) :
       /\ instr[a].name = <<"a","n","d">>
       /\ instr[a].opcodeBits = <<"1","0","0","0","0","0","1","0">>
       /\ instr[b].name = <<"a","n","d","i","2">>
       /\ instr[b].opcodeBits = <<"0","1","0","0","0","0","1","0">>

(* C5 as stated: the opcode part of the assembly output has one line per   *)
(* non-wildcard line of the rule table, in the same order, and the line is *)
(* the mnemonic, a space and the decimal value in 0..255 of the 8 bits     *)
(* read with bit 0 most significant; and a derived record's value is its   *)
(* base's value plus 128 (i1), 64 (i2) or 192 (i12).                       *)
AsmLineOfRuleLine(l) ==
  SubSeq(l, 11, Len(l)) \o <<" ">> \o Decimal(OpcodeValue(SubSeq(l, 1, 8)))

AsmMatchesRuleTable ==
  LET ruleLines == SelectSeq(AuthoredRows(fs[RulesFile]),
                             LAMBDA l : ~IsWildcard(SubSeq(l, 1, 8)))
  IN  /\ \A k \in 1..Len(ruleLines) :
           OpcodeValue(SubSeq(ruleLines[k], 1, 8)) \in 0..255
      /\ fs[AsmFile] =
           joinLines([k \in 1..Len(ruleLines) |-> AsmLineOfRuleLine(ruleLines[k])])
             \o asmAppendix

DerivedValueIsBasePlusOffset ==
  \A k \in 1..Len(lowered) :
    LET b    == lowered[k]
        s    == BlockStart(lowered, k)
        tags == TagsOfRecord(b)
    IN  \A j \in 1..Len(tags) :
          OpcodeValue(instr[s + j].opcodeBits)
            = OpcodeValue(b.opcodeBits) + OffsetOfTag(tags[j])

C5_Original ==
  (pc = "done") => (AsmMatchesRuleTable /\ DerivedValueIsBasePlusOffset)

(* C5 amended: the opcode part of the assembly output has one line per     *)
(* non-wildcard line of the rule table, in the same order, each the        *)
(* mnemonic, a space and the decimal value in 0..255 of the 8 bits read    *)
(* with bit 0 most significant; a derived record's value is the value of   *)
(* its base's bits 2-7 plus 128 (i1), 64 (i2) or 192 (i12), which is the   *)
(* base's value plus that amount when the base's bits 0-1 are 00, as for   *)
(* every base row of the embedded table.                                   *)
C5_AsmLineIsMnemonicAndValue ==
  (pc = "done") =>
    /\ AsmMatchesRuleTable
    /\ \A k \in 1..Len(lowered) :
         LET b    == lowered[k]
             s    == BlockStart(lowered, k)
             tags == TagsOfRecord(b)
         IN  \A j \in 1..Len(tags) :
               OpcodeValue(instr[s + j].opcodeBits)
                 = (OpcodeValue(b.opcodeBits) % 64) + OffsetOfTag(tags[j])
    /\ (input = instructions => DerivedValueIsBasePlusOffset)

C5_Witness ==
  /\ pc = "done"
  /\ LET lines == splitLines(fs[AsmFile])
     IN  /\ Len(lines) > 3
         /\ lines[1] = <<"a","n","d"," ","1","3","0">>
         /\ lines[2] = <<"a","n","d","i","1"," ","1","3","0">>
         /\ lines[3] = <<"a","n","d","i","2"," ","6","6">>

(* C6 as stated: parsing the generated rule-table text and serializing the *)
(* parsed records again reproduces the text, line for line in the same     *)
(* order.                                                                  *)
C6_Original ==
  (pc = "done") =>
    stringifyFileInstructionsForFile(readFileInstructions(fs[RulesFile]))
      = fs[RulesFile]

(* C6 amended: parsing the generated rule-table text and serializing the   *)
(* parsed records again reproduces the same lines in the reverse order     *)
(* (the parser reverses the rows), so doing it twice reproduces the text.  *)
C6_RoundTripReverses ==
  (pc = "done") =>
    LET text  == fs[RulesFile]
        again == stringifyFileInstructionsForFile(readFileInstructions(text))
    IN  /\ splitLines(again) = reverse(splitLines(text))
        /\ stringifyFileInstructionsForFile(readFileInstructions(again)) = text

C6_Witness ==
  /\ pc = "done"
  /\ LET lines == splitLines(fs[RulesFile])
     IN  /\ Len(lines) >= 2
         /\ lines[1] # lines[Len(lines)]
         /\ \E k \in 1..Len(lines) : IsWildcard(SubSeq(lines[k], 1, 8))

(* C8 as stated: when the base rows (the non-wildcard rows kept by the     *)
(* filter) differ pairwise in bits 2-7, the expanded sequence has no two   *)
(* non-wildcard records with the same opcodeBits, whatever the base rows'  *)
(* bits 0-1 are.                                                           *)
BasesDifferInLow6 ==
  \A a, b \in 1..Len(kept) :
    (a # b /\ ~IsWildcard(kept[a].opcodeBits) /\ ~IsWildcard(kept[b].opcodeBits))
      => Low6(kept[a].opcodeBits) # Low6(kept[b].opcodeBits)

C8_Original ==
  (Expanded /\ BasesDifferInLow6) => NoOpcodeCollision(instr)

(* C8 amended: when the base rows differ pairwise in bits 2-7 and no base  *)
(* row's bits 0-1 are the pattern of a mode it is expanded with (so in     *)
(* particular when every base row's bits 0-1 are 00), the expanded         *)
(* sequence has no two non-wildcard records with the same opcodeBits.      *)
NoBaseLeadsWithOwnModePattern ==
  \A k \in 1..Len(lowered) :
    \A j \in 1..Len(TagsOfRecord(lowered[k])) :
      Leading(lowered[k].opcodeBits) # PatternOfTag(TagsOfRecord(lowered[k])[j])

C8_NoCollisionWhenBasesDiffer ==
  (Expanded /\ BasesDifferInLow6 /\ NoBaseLeadsWithOwnModePattern)
    => NoOpcodeCollision(instr)

C8_Witness ==
  /\ pc = "done"
  /\ BasesDifferInLow6
  /\ NoBaseLeadsWithOwnModePattern
  /\ Len(lowered) = 2
  /\ lowered[1].opcodeBits = <<"1","1","0","0","0","1","1","0">>
  /\ lowered[2].opcodeBits = <<"0","0","0","0","0","0","0","0">>
  /\ Len(instr) = 5

(* C9: serializeInstructionToAsm fails, returning no line, on a record     *)
(* whose opcodeBits contain 2; the script never reaches that error,        *)
(* because the wildcard records are filtered out before the rendering and  *)
(* no derived record contains 2; so no run ends with the rule table        *)
(* written and the assembly table missing.                                 *)
C9_WildcardErrorUnreachable ==
  /\ \A k \in 1..Len(instr) :
       IsWildcard(instr[k].opcodeBits)
         => /\ serializeInstructionToAsm(instr[k]).threw
            /\ serializeInstructionToAsm(instr[k]).line = <<>>
            /\ instr[k] \in Range(lowered)
  /\ pc # "threw"
  /\ (pc \in {"done", "threw"} /\ RulesFile \in DOMAIN fs) => AsmFile \in DOMAIN fs

C9_Witness ==
  /\ pc = "done"
  /\ \E k \in 1..Len(instr) : IsWildcard(instr[k].opcodeBits)
  /\ \E k \in 1..Len(instr) : ~IsWildcard(instr[k].opcodeBits)
  /\ RulesFile \in DOMAIN fs
  /\ AsmFile \in DOMAIN fs

(* C10: for the embedded table, the first record of the expanded sequence  *)
(* is the last row of the literal and has opcode value 0; in the rule      *)
(* table the rows of each immediate-mode family (leading bits 00, 10, 01,  *)
(* 11) are in strictly ascending opcode value, and every wildcard row      *)
(* comes after every opcode row.                                           *)
C10_EmbeddedTableAscending ==
  (input = instructions /\ pc = "done") =>
    LET rows  == AuthoredRows(input)
        lines == splitLines(fs[RulesFile])
        bits(k) == SubSeq(lines[k], 1, 8)
    IN  /\ serializeInstructionToRules(instr[1]) = rows[Len(rows)]
        /\ lines[1] = rows[Len(rows)]
        /\ OpcodeValue(instr[1].opcodeBits) = 0
        /\ \A a, b \in 1..Len(lines) :
             (a < b /\ ~IsWildcard(bits(a)) /\ ~IsWildcard(bits(b))
                /\ Leading(bits(a)) = Leading(bits(b)))
               => OpcodeValue(bits(a)) < OpcodeValue(bits(b))
        /\ \A a, b \in 1..Len(lines) :
             (IsWildcard(bits(a)) /\ ~IsWildcard(bits(b))) => a > b

C10_Witness ==
  /\ input = instructions
  /\ pc = "done"
  /\ LET lines == splitLines(fs[RulesFile])
     IN  /\ lines[1] = <<"0","0","0","0","0","0","0","0","5","7","a","d","d">>
         /\ IsWildcard(SubSeq(lines[Len(lines)], 1, 8))
         /\ \E k \in 1..Len(lines) :
              Leading(SubSeq(lines[k], 1, 8)) = <<"1","1">>

(* C2: every authored row whose bit field contains 2 appears in the rule   *)
(* table with exactly the same text and without derived siblings, whatever *)
(* its mnemonic is (also one ending in i1, i2 or i12), and no line of the  *)
(* assembly output comes from it.                                          *)
AsmOpcodeLines ==
  LET body == SubSeq(fs[AsmFile], 1, Len(fs[AsmFile]) - Len(asmAppendix))
  IN  IF body = <<>> THEN <<>> ELSE splitLines(body)

C2_WildcardPassthrough ==
  (pc = "done") =>
    LET rows  == AuthoredRows(input)
        lines == splitLines(fs[RulesFile])
    IN  /\ \A k \in 1..Len(rows) :
             IsWildcard(SubSeq(rows[k], 1, 8))
               => Count(lines, rows[k]) = Count(rows, rows[k])
        /\ Len(AsmOpcodeLines)
             = Cardinality({k \in 1..Len(lines) :
                              lines[k] # <<>> /\ ~IsWildcard(SubSeq(lines[k], 1, 8))})

(* C7: a non-wildcard row whose case-normalized mnemonic ends in a mode    *)
(* tag is never given to the expander, no output mnemonic carries two mode *)
(* tags, and running the script again on the rule table it generated       *)
(* yields the same set of records.                                         *)
C7_NoDoubleExpansion ==
  (pc = "done") =>
    /\ \A k \in 1..Len(lowered) :
         ~IsWildcard(lowered[k].opcodeBits) => ~EndsInModeTag(lowered[k].name)
    /\ \A k \in 1..Len(instr) :
         \A tag \in {TagI1, TagI2, TagI12} :
           (Len(instr[k].name) >= Len(tag)
              /\ SubSeq(instr[k].name, Len(instr[k].name) - Len(tag) + 1,
                        Len(instr[k].name)) = tag)
             => ~EndsInModeTag(SubSeq(instr[k].name, 1,
                                      Len(instr[k].name) - Len(tag)))
    /\ Range(expand(lowercaseNames(filterExpanded(
               readFileInstructions(fs[RulesFile])))))
         = Range(instr)

====
